---- MODULE Spec2Model ----
(***************************************************************************)
(* Product API (Express + Mongoose): the request pipeline of server.js,     *)
(* the Product schema of models/products.js and the store operations the    *)
(* handlers call.  JavaScript strings are TLA+ strings; JavaScript values   *)
(* of a request (header, query, JSON body fields) are tagged records.       *)
(***************************************************************************)
EXTENDS Integers, Sequences, FiniteSets, TLC

VARIABLES
    env,        \* process.env: API_KEY and NODE_ENV
    store,      \* the products collection: a set of documents
    seedPc,     \* position of seedDatabase(): "count", "insert", "done"
    uuidNext,   \* number of ids uuidv4() has generated so far
    ops,        \* number of requests received so far
    req,        \* the request answered last
    res,        \* the response sent last
    before,     \* the collection as it was when that request arrived
    after,      \* the collection as it was when that response was sent
    storeCalls, \* number of store operations made for that request
    statsReq,   \* the statistics request in flight (between its awaits)
    listReq,    \* the list request in flight (between its awaits)
    sentBy,     \* the stage of the pipeline that sent that response
    thrown      \* the error passed to next(err) for that request, if any

vars ==
    <<env, store, seedPc, uuidNext, ops, req, res, before, after, storeCalls, statsReq,
      listReq, sentBy, thrown>>

-----------------------------------------------------------------------------
(* Bounds of the model *)

\* requests the server receives in one behaviour
MaxOps == 2

-----------------------------------------------------------------------------
(* JavaScript values *)

Undef == [t |-> "undefined"]
Null == [t |-> "null"]
JStr(s) == [t |-> "string", s |-> s]
JNum(n) == [t |-> "number", n |-> n]
JBool(b) == [t |-> "boolean", b |-> b]

\* typeof v
TypeOf(v) == IF v.t = "null" THEN "object" ELSE v.t

\* ToBoolean(v): what `!v` and `v || w` test
Truthy(v) ==
    CASE v.t = "undefined" -> FALSE
      [] v.t = "null" -> FALSE
      [] v.t = "string" -> v.s # ""
      [] v.t = "number" -> v.n # 0
      [] v.t = "boolean" -> v.b

IsSpace(c) == c \in {" ", "\t", "\n", "\r"}

RECURSIVE TrimStart(_)
TrimStart(s) ==
    IF Len(s) > 0 /\ IsSpace(SubSeq(s, 1, 1))
    THEN TrimStart(SubSeq(s, 2, Len(s)))
    ELSE s

RECURSIVE TrimEnd(_)
TrimEnd(s) ==
    IF Len(s) > 0 /\ IsSpace(SubSeq(s, Len(s), Len(s)))
    THEN TrimEnd(SubSeq(s, 1, Len(s) - 1))
    ELSE s

\* String.prototype.trim
Trim(s) == TrimEnd(TrimStart(s))

\* String.prototype.includes
Contains(s, sub) ==
    \E i \in 1..(Len(s) - Len(sub) + 1) : SubSeq(s, i, i + Len(sub) - 1) = sub

RECURSIVE Join(_, _)
\* Array.prototype.join
Join(seq, sep) ==
    IF seq = <<>> THEN ""
    ELSE IF Len(seq) = 1 THEN seq[1]
    ELSE seq[1] \o sep \o Join(Tail(seq), sep)

-----------------------------------------------------------------------------
(* Error classes and the error-handling middleware *)

NotFoundError(message) ==
    [name |-> "NotFoundError", message |-> message, statusCode |-> 404,
     isOperational |-> TRUE]

ValidationError(message) ==
    [name |-> "ValidationError", message |-> message, statusCode |-> 400,
     isOperational |-> TRUE]

AuthenticationError(message) ==
    [name |-> "AuthenticationError", message |-> message, statusCode |-> 401,
     isOperational |-> TRUE]

\* what Mongoose rejects a write with when schema validators fail: one
\* ValidatorError per path, kept in err.errors
MongooseValidationError(paths) ==
    [name |-> "ValidationError",
     message |-> "Validation failed",
     errors |-> [i \in 1..Len(paths) |-> "Path " \o paths[i] \o " is required."]]

\* what the driver rejects a write with when the unique index on id is hit
DuplicateKeyError(id) ==
    [name |-> "MongoServerError",
     message |-> "E11000 duplicate key error collection: products index: id_1 dup key: { id: "
                    \o id \o " }",
     code |-> 11000]

\* what the driver rejects a find with when skip is negative
SkipError ==
    [name |-> "MongoServerError",
     message |-> "Skip value must be non-negative",
     code |-> 2]

\* nothing was thrown and next(err) was not called
NoError == [name |-> "none"]

\* err.stack
StackOf(name, message) == name \o ": " \o message \o "\n    at <frames>"

\* next(): the middleware sends nothing and the following stage runs
next == [code |-> 0, type |-> "next"]

\* res.status(code).json(body)
Json(code, body) == [code |-> code, type |-> "json", body |-> body]

\* Express's own last-resort handler, which answers when the registered
\* error-handling middleware itself throws: 500, an HTML page
FinalHandler(name, message) ==
    [code |-> 500, type |-> "html",
     body |-> IF env.NODE_ENV = "production"
              THEN "Internal Server Error"
              ELSE StackOf(name, message)]

\* app.use((err, req, res, next) => ...)
ErrorHandler(err) ==
    LET statusCode0 == IF "statusCode" \in DOMAIN err THEN err.statusCode ELSE 500
        status == IF "status" \in DOMAIN err THEN err.status ELSE "error"
        isValidation == err.name = "ValidationError"
        isCast == err.name = "CastError"
        statusCode == IF isValidation \/ isCast THEN 400 ELSE statusCode0
        message ==
            IF isCast THEN "Invalid " \o err.path \o ": " \o err.value
            ELSE IF isValidation THEN Join(err.errors, ", ")
            ELSE err.message
        stack == StackOf(err.name, err.message)
    IN  IF isValidation /\ "errors" \notin DOMAIN err
        THEN \* Object.values(undefined) throws a TypeError inside the handler
             FinalHandler("TypeError", "Cannot convert undefined or null to object")
        ELSE IF env.NODE_ENV = "development"
        THEN Json(statusCode, [status |-> status, message |-> message, stack |-> stack])
        ELSE Json(statusCode, [status |-> status, message |-> message])

\* the stage that answers once the middleware of the route has called next():
\* the handler (res.status(..).json) when nothing was thrown, else the
\* error-handling middleware, or Express's handler when that one threw
Responder(response, err) ==
    IF err = NoError THEN "handler"
    ELSE IF response.type = "html" THEN "finalhandler"
    ELSE "errorHandler"

-----------------------------------------------------------------------------
(* Middleware: authentication and validation *)

FallbackKey == "your-secret-api-key"

\* authenticate(req, res, next): next() or the response it sends
authenticate(apiKey) ==
    IF ~Truthy(apiKey)
    THEN Json(401, [status |-> "error",
                    message |-> "API key is required. Please provide api-key in headers."])
    ELSE IF apiKey # JStr(env.API_KEY) /\ apiKey # JStr(FallbackKey)
    THEN Json(401, [status |-> "error", message |-> "Invalid API key"])
    ELSE next

\* !s || typeof s !== 'string' || s.trim().length === 0
BadRequiredString(v) ==
    \/ ~Truthy(v)
    \/ TypeOf(v) # "string"
    \/ Len(Trim(v.s)) = 0

\* the string check of an update that treats an absent field as a violation
BadOptionalString_Required(v) ==
    \/ v = Undef
    \/ TypeOf(v) # "string"
    \/ Len(Trim(v.s)) = 0

\* s !== undefined && (typeof s !== 'string' || s.trim().length === 0)
BadOptionalString(v) ==
    /\ v # Undef
    /\ \/ TypeOf(v) # "string"
       \/ Len(Trim(v.s)) = 0

\* the price check without its sign test
BadPrice_TypeOnly(v) == TypeOf(v) # "number"

\* typeof price !== 'number' || price < 0
BadPrice(v) ==
    \/ TypeOf(v) # "number"
    \/ v.n < 0

\* validation that stops at the first violation
validateProductErrors_FirstOnly(body) ==
    IF BadRequiredString(body.name)
    THEN <<"Name is required and must be a non-empty string">>
    ELSE IF body.price = Undef \/ body.price = Null
    THEN <<"Price is required">>
    ELSE IF TypeOf(body.price) # "number" \/ body.price.n < 0
    THEN <<"Price must be a non-negative number">>
    ELSE IF BadRequiredString(body.category)
    THEN <<"Category is required and must be a non-empty string">>
    ELSE IF body.inStock # Undef /\ TypeOf(body.inStock) # "boolean"
    THEN <<"inStock must be a boolean value">>
    ELSE <<>>

\* the errors array validateProduct builds
validateProductErrors(body) ==
    (IF BadRequiredString(body.name)
     THEN <<"Name is required and must be a non-empty string">> ELSE <<>>)
    \o
    (IF body.price = Undef \/ body.price = Null
     THEN <<"Price is required">>
     ELSE IF BadPrice(body.price)
     THEN <<"Price must be a non-negative number">> ELSE <<>>)
    \o
    (IF BadRequiredString(body.category)
     THEN <<"Category is required and must be a non-empty string">> ELSE <<>>)
    \o
    (IF body.inStock # Undef /\ TypeOf(body.inStock) # "boolean"
     THEN <<"inStock must be a boolean value">> ELSE <<>>)

\* the errors array validateProductUpdate builds
validateProductUpdateErrors(body) ==
    (IF BadOptionalString(body.name)
     THEN <<"Name must be a non-empty string">> ELSE <<>>)
    \o
    (IF body.price # Undef /\ BadPrice(body.price)
     THEN <<"Price must be a non-negative number">> ELSE <<>>)
    \o
    (IF BadOptionalString(body.category)
     THEN <<"Category must be a non-empty string">> ELSE <<>>)
    \o
    (IF body.inStock # Undef /\ TypeOf(body.inStock) # "boolean"
     THEN <<"inStock must be a boolean value">> ELSE <<>>)

\* the 400 response both validators send
ValidationFailed(errors) ==
    Json(400, [status |-> "error", message |-> "Validation failed", errors |-> errors])

\* validateProduct(req, res, next): next() or the response it sends
validateProduct(body) ==
    LET errors == validateProductErrors(body)
    IN  IF Len(errors) > 0 THEN ValidationFailed(errors) ELSE next

\* validateProductUpdate(req, res, next): next() or the response it sends
validateProductUpdate(body) ==
    LET errors == validateProductUpdateErrors(body)
    IN  IF Len(errors) > 0 THEN ValidationFailed(errors) ELSE next

-----------------------------------------------------------------------------
(* The Product model and the store *)

\* initialProducts of seedDatabase(); the schema has no description path, so
\* Mongoose (strict mode) does not store that field
initialProducts ==
    << [id |-> "1", name |-> "Laptop", price |-> 1200,
        category |-> "electronics", inStock |-> TRUE],
       [id |-> "2", name |-> "Smartphone", price |-> 800,
        category |-> "electronics", inStock |-> TRUE],
       [id |-> "3", name |-> "Coffee Maker", price |-> 50,
        category |-> "kitchen", inStock |-> FALSE],
       [id |-> "4", name |-> "Wireless Mouse", price |-> 25,
        category |-> "electronics", inStock |-> TRUE],
       [id |-> "5", name |-> "Blender", price |-> 80,
        category |-> "kitchen", inStock |-> TRUE] >>

\* a collection without the unique index: no id is ever refused
IdInUse_NoIndex(coll, id) == FALSE

\* the unique index on id (unique: true in productSchema)
IdInUse(coll, id) == \E p \in coll : p.id = id

\* Product.findOne({ id })
FindOne(coll, id) == {p \in coll : p.id = id}

RECURSIVE InsertMany(_, _)
\* Product.insertMany(docs), ordered: documents are inserted in order and the
\* first duplicate key stops the insert
InsertMany(coll, docs) ==
    IF docs = <<>> THEN coll
    ELSE IF IdInUse(coll, Head(docs).id) THEN coll
    ELSE InsertMany(coll \cup {Head(docs)}, Tail(docs))

\* uuidv4(): the n-th id generated; no two calls return the same id
UuidDigits == <<"1", "2", "3", "4", "5", "6", "7", "8", "9">>
uuidv4(n) == "uuid-" \o UuidDigits[n]

\* new Product(productData): the schema casts the fields and fills defaults
NewProduct(body, id) ==
    [id |-> id,
     name |-> body.name.s,
     price |-> body.price.n,
     category |-> body.category.s,
     inStock |-> IF body.inStock = Undef THEN TRUE ELSE body.inStock.b]

\* the paths of productSchema
SchemaPaths == {"id", "name", "price", "category", "inStock"}

\* the update Mongoose sends for findOneAndUpdate(filter, req.body): the
\* top-level paths of the payload are set, and so are the paths of a $set
\* operator the payload carries
UpdateDoc(body) ==
    [f \in SchemaPaths |->
        IF body[f] # Undef THEN body[f]
        ELSE IF "$set" \in DOMAIN body /\ f \in DOMAIN body["$set"] THEN body["$set"][f]
        ELSE Undef]

\* the paths of an update document that carry a value (JSON has no undefined)
Provided(body) == {f \in DOMAIN body : body[f] # Undef}

\* the value a provided path is set to
CastField(body, f) ==
    CASE f = "price" -> body[f].n
      [] f = "inStock" -> body[f].b
      [] OTHER -> body[f].s

\* the document after { $set: body }
ApplyUpdate(doc, body) ==
    [f \in DOMAIN doc |-> IF f \in Provided(body) THEN CastField(body, f) ELSE doc[f]]

\* runValidators: the required validator of each provided String path
\* rejects the empty string
RequiredFailures(body) ==
    SelectSeq(<<"id", "name", "category">>,
              LAMBDA f : f \in Provided(body) /\ body[f] = JStr(""))

-----------------------------------------------------------------------------
(* Query helpers of the read routes *)

DigitChars == "0123456789"
IsDigit(c) == \E i \in 1..Len(DigitChars) : SubSeq(DigitChars, i, i) = c
DigitVal(c) == (CHOOSE i \in 1..Len(DigitChars) : SubSeq(DigitChars, i, i) = c) - 1

RECURSIVE ParseDigits(_, _)
\* the value of the longest prefix of digits of s, after the digits read so far
ParseDigits(s, acc) ==
    IF Len(s) > 0 /\ IsDigit(SubSeq(s, 1, 1))
    THEN ParseDigits(SubSeq(s, 2, Len(s)), 10 * acc + DigitVal(SubSeq(s, 1, 1)))
    ELSE acc

\* parseInt(v) for a number or a string that starts with an integer
parseInt(v) ==
    IF v.t = "number" THEN v.n
    ELSE LET s == TrimStart(v.s)
         IN  IF Len(s) > 0 /\ SubSeq(s, 1, 1) = "-"
             THEN 0 - ParseDigits(SubSeq(s, 2, Len(s)), 0)
             ELSE IF Len(s) > 0 /\ SubSeq(s, 1, 1) = "+"
             THEN ParseDigits(SubSeq(s, 2, Len(s)), 0)
             ELSE ParseDigits(s, 0)

\* the JSON value of Math.ceil(a / b) for an integer a >= 0: a non-finite
\* number (b = 0) is serialized as null
CeilDiv(a, b) ==
    IF b = 0 THEN Null
    ELSE IF b > 0 THEN JNum((a + b - 1) \div b)
    ELSE JNum(0 - (a \div (0 - b)))

\* the characters of the strings of the model, in code-point order
Alphabet == " -0123456789ABCDEFGHIJKLMNOPQRSTUVWXYZ_abcdefghijklmnopqrstuvwxyz"
Chars == [i \in 1..Len(Alphabet) |-> SubSeq(Alphabet, i, i)]
CharCodes ==
    [c \in {Chars[i] : i \in DOMAIN Chars} |-> CHOOSE i \in DOMAIN Chars : Chars[i] = c]
CharCode(c) == CharCodes[c]

RECURSIVE StrLess(_, _)
\* a sorts before b (binary comparison of strings)
StrLess(a, b) ==
    IF Len(b) = 0 THEN FALSE
    ELSE IF Len(a) = 0 THEN TRUE
    ELSE LET ca == CharCode(SubSeq(a, 1, 1))
             cb == CharCode(SubSeq(b, 1, 1))
         IN  \/ ca < cb
             \/ ca = cb /\ StrLess(SubSeq(a, 2, Len(a)), SubSeq(b, 2, Len(b)))

UpperA == CharCode("A")
UpperZ == CharCode("Z")
LowerA == CharCode("a")

\* one character, lower-cased
LowerChar(c) ==
    IF CharCode(c) >= UpperA /\ CharCode(c) <= UpperZ
    THEN Chars[CharCode(c) - UpperA + LowerA]
    ELSE c

RECURSIVE ToLower(_)
ToLower(s) ==
    IF Len(s) = 0 THEN ""
    ELSE LowerChar(SubSeq(s, 1, 1)) \o ToLower(SubSeq(s, 2, Len(s)))

\* { name: { $regex: q, $options: 'i' } } for a q without regex operators
NameMatches(p, q) == Contains(ToLower(p.name), ToLower(q))

RECURSIVE Orderings(_)
\* the orders in which the store may return a set of documents
Orderings(S) ==
    IF S = {} THEN {<<>>}
    ELSE UNION {{<<m>> \o t : t \in Orderings(S \ {m})} : m \in S}

RECURSIVE SortedByName(_)
\* .sort({ name: 1 }): documents with equal names come in any order
SortedByName(S) ==
    IF S = {} THEN {<<>>}
    ELSE LET first == {p \in S : \A q \in S : ~StrLess(q.name, p.name)}
         IN  UNION {{<<m>> \o t : t \in SortedByName(S \ {m})} : m \in first}

\* const { page = 1, limit = 10 } = req.query
PageOf(query) == IF query.page = Undef THEN JNum(1) ELSE query.page
LimitOf(query) == IF query.limit = Undef THEN JNum(10) ELSE query.limit

\* the filter object the list handler builds from the query string
ListFilter(query) ==
    [category |-> IF Truthy(query.category) THEN query.category ELSE Undef,
     inStock |-> IF query.inStock # Undef
                 THEN JBool(query.inStock = JStr("true")) ELSE Undef]

\* the documents a filter selects
Matching(coll, filter) ==
    {p \in coll :
        /\ filter.category # Undef => p.category = filter.category.s
        /\ filter.inStock # Undef => p.inStock = filter.inStock.b}

\* cursor.skip(n) on a sorted result, n >= 0
Skip(seq, n) == SubSeq(seq, n + 1, Len(seq))

\* cursor.limit(n): 0 is no limit, a negative n limits to -n
Limit(seq, n) ==
    LET m == IF n < 0 THEN 0 - n ELSE n
    IN  IF n = 0 \/ m >= Len(seq) THEN seq ELSE SubSeq(seq, 1, m)

RECURSIVE SumPrice(_)
SumPrice(S) ==
    IF S = {} THEN 0
    ELSE LET p == CHOOSE x \in S : TRUE IN p.price + SumPrice(S \ {p})

\* $avg: the quotient sum / count, kept as the two numbers
Avg(S) == [num |-> SumPrice(S), den |-> Cardinality(S)]

\* $group by category
CategoryGroups(coll) ==
    {[_id |-> c,
      count |-> Cardinality({p \in coll : p.category = c}),
      averagePrice |-> Avg({p \in coll : p.category = c}),
      totalValue |-> SumPrice({p \in coll : p.category = c})]
        : c \in {p.category : p \in coll}}

RECURSIVE SortedByCountDesc(_)
\* $sort: { count: -1 }: groups with equal counts come in any order
SortedByCountDesc(G) ==
    IF G = {} THEN {<<>>}
    ELSE LET first == {g \in G : \A h \in G : h.count <= g.count}
         IN  UNION {{<<m>> \o t : t \in SortedByCountDesc(G \ {m})} : m \in first}

\* $group with _id null: absent for an empty collection (priceStats[0] || {})
PriceStats(coll) ==
    IF coll = {} THEN <<>>
    ELSE [_id |-> Null,
          averagePrice |-> Avg(coll),
          minPrice |-> CHOOSE m \in {p.price : p \in coll} :
                           \A p \in coll : m <= p.price,
          maxPrice |-> CHOOSE m \in {p.price : p \in coll} :
                           \A p \in coll : m >= p.price]

-----------------------------------------------------------------------------
(* Requests *)

\* the routes of the API
PostRoute == "POST /api/products"
PutRoute == "PUT /api/products/:id"
DeleteRoute == "DELETE /api/products/:id"
ListRoute == "GET /api/products"
SearchRoute == "GET /api/products/search"
StatsRoute == "GET /api/products/statistics"
GetOneRoute == "GET /api/products/:id"
RootRoute == "GET /"
NoRoute == "unmatched"

\* API_KEY of the environment
ConfiguredKey == "dev-test-key-12345"

NoRequest == [route |-> "none"]
NoResponse == [code |-> 0, type |-> "none"]
Idle == [pc |-> "idle"]

\* a complete, valid creation payload
MugBody(id, inStock) ==
    [id |-> id, name |-> JStr("Mug"), price |-> JNum(30),
     category |-> JStr("kitchen"), inStock |-> inStock]

EmptyBody ==
    [id |-> Undef, name |-> Undef, price |-> Undef, category |-> Undef,
     inStock |-> Undef]

\* an update payload that carries only a $set operator: { "$set": paths }
SetPayload(paths) == EmptyBody @@ ("$set" :> paths)

\* Requests of the operation sequences (Spec)
SeqCreates ==
    ({JStr(ConfiguredKey)} \X
        {MugBody(i, s) : i \in {Undef, JStr("1"), JStr("7")}, s \in {Undef, JBool(FALSE)}})
    \cup {<<Undef, MugBody(Undef, Undef)>>}

SeqUpdates ==
    ({JStr(ConfiguredKey)} \X
        [id : {Undef, JStr(""), JStr("2"), JStr("7")}, name : {Undef, JStr("Mug")},
         price : {Undef, JNum(30)}, category : {Undef}, inStock : {Undef, JBool(FALSE)}])
    \cup {<<Undef, EmptyBody>>}
    \cup ({JStr(ConfiguredKey)} \X
            {SetPayload([price |-> JNum(-5)]), SetPayload([name |-> JStr(" ")])})

SeqKeys == {Undef, JStr(ConfiguredKey)}
SeqParamIds == {"1", "9"}
SeqQueries ==
    [category : {Undef}, inStock : {Undef, JStr("true")},
     page : {Undef, JStr("2")}, limit : {JStr("0"), JStr("2")}]
SeqSearches == {Undef, JStr("ma")}
SeqUrls == {"/api/unknown"}

\* Requests of the single-request checks (SpecOne)
OneKeys ==
    {Undef, JStr(""), JStr("wrong-key"), JStr(ConfiguredKey), JStr(FallbackKey)}
OneBodies ==
    [id : {Undef, JStr("1"), JStr("7")},
     name : {Undef, Null, JStr(""), JStr("  "), JStr("Mug"), JNum(5)},
     price : {Undef, Null, JNum(-50), JNum(30), JStr("30")},
     category : {Undef, Null, JStr(" "), JStr("kitchen")},
     inStock : {Undef, Null, JBool(FALSE), JStr("yes")}]
OneParamIds == {"1", "9"}
OneQueries ==
    [category : {Undef, JStr(""), JStr("kitchen")},
     inStock : {Undef, JStr("true"), JStr("false")},
     page : {Undef, JStr("0"), JStr("1"), JStr("2"), JStr("3")},
     limit : {Undef, JStr("-1"), JStr("0"), JStr("1"), JStr("2"), JStr("3")}]
OneSearches == {Undef, JStr(""), JStr("ma"), JStr("LAP"), JStr("zz")}
OneUrls == {"/api/unknown", "/api/product/1", "/products"}

Envs == [API_KEY : {ConfiguredKey}, NODE_ENV : {"development", "production"}]

\* the server starts, connected to an empty collection
Init ==
    /\ env \in Envs
    /\ store = {}
    /\ seedPc = "count"
    /\ uuidNext = 0
    /\ ops = 0
    /\ req = NoRequest
    /\ res = NoResponse
    /\ before = {}
    /\ after = {}
    /\ storeCalls = 0
    /\ statsReq = Idle
    /\ listReq = Idle
    /\ sentBy = "none"
    /\ thrown = NoError

\* the seeded server with one request left to receive
InitOne ==
    /\ env \in Envs
    /\ store = InsertMany({}, initialProducts)
    /\ seedPc = "done"
    /\ uuidNext = 0
    /\ ops = MaxOps - 1
    /\ req = NoRequest
    /\ res = NoResponse
    /\ before = {}
    /\ after = {}
    /\ storeCalls = 0
    /\ statsReq = Idle
    /\ listReq = Idle
    /\ sentBy = "none"
    /\ thrown = NoError

-----------------------------------------------------------------------------
(* seedDatabase() *)

\* const count = await Product.countDocuments()
SeedCount ==
    /\ seedPc = "count"
    /\ seedPc' = IF Cardinality(store) = 0 THEN "insert" ELSE "done"
    /\ UNCHANGED <<env, store, uuidNext, ops, req, res, before, after, storeCalls,
                   sentBy, thrown, statsReq, listReq>>

\* await Product.insertMany(initialProducts)
SeedInsert ==
    /\ seedPc = "insert"
    /\ store' = InsertMany(store, initialProducts)
    /\ seedPc' = "done"
    /\ UNCHANGED <<env, uuidNext, ops, req, res, before, after, storeCalls,
                   sentBy, thrown, statsReq, listReq>>

-----------------------------------------------------------------------------
(* Protected routes *)

\* the create route with its two middleware registered in the other order
CreateResponse_ValidateFirst(apiKey, body) ==
    IF validateProduct(body) # next THEN validateProduct(body)
    ELSE IF authenticate(apiKey) # next THEN authenticate(apiKey)
    ELSE Json(201, [status |-> "success",
                    message |-> "Product created successfully",
                    data |-> NewProduct(body, IF Truthy(body.id) THEN body.id.s
                                              ELSE uuidv4(uuidNext + 1))])

\* the error the create handler rejects with: newProduct.save()
CreateThrows(body) ==
    LET id == IF Truthy(body.id) THEN body.id.s ELSE uuidv4(uuidNext + 1)
    IN  IF IdInUse(store, id) THEN DuplicateKeyError(id) ELSE NoError

\* app.post('/api/products', authenticate, validateProduct, handler)
CreateResponse(apiKey, body) ==
    LET id == IF Truthy(body.id) THEN body.id.s ELSE uuidv4(uuidNext + 1)
        newProduct == NewProduct(body, id)
    IN  IF authenticate(apiKey) # next THEN authenticate(apiKey)
        ELSE IF validateProduct(body) # next THEN validateProduct(body)
        ELSE IF CreateThrows(body) # NoError THEN ErrorHandler(CreateThrows(body))
        ELSE Json(201, [status |-> "success",
                        message |-> "Product created successfully",
                        data |-> newProduct])

Create(apiKey, body) ==
    LET r == CreateResponse(apiKey, body)
        handled == authenticate(apiKey) = next /\ validateProduct(body) = next
    IN  /\ ops' = ops + 1
        /\ req' = [route |-> PostRoute, apiKey |-> apiKey, body |-> body]
        /\ res' = r
        /\ before' = store
        /\ storeCalls' = IF handled THEN 1 ELSE 0
        /\ store' = IF r.code = 201 THEN store \cup {r.body.data} ELSE store
        /\ after' = store'
        /\ uuidNext' = IF handled /\ ~Truthy(body.id) THEN uuidNext + 1 ELSE uuidNext
        /\ thrown' = IF handled THEN CreateThrows(body) ELSE NoError
        /\ sentBy' = IF authenticate(apiKey) # next THEN "authenticate"
                      ELSE IF validateProduct(body) # next THEN "validateProduct"
                      ELSE Responder(r, thrown')
        /\ UNCHANGED <<env, seedPc, statsReq, listReq>>

\* the error the update handler rejects with: findOneAndUpdate, or its null result
UpdateThrows(id, body) ==
    LET found == FindOne(store, id)
        doc == CHOOSE p \in found : TRUE
        updatedProduct == ApplyUpdate(doc, UpdateDoc(body))
    IN  IF RequiredFailures(UpdateDoc(body)) # <<>>
        THEN MongooseValidationError(RequiredFailures(UpdateDoc(body)))
        ELSE IF found = {}
        THEN NotFoundError("Product with id " \o id \o " not found")
        ELSE IF IdInUse(store \ {doc}, updatedProduct.id)
        THEN DuplicateKeyError(updatedProduct.id)
        ELSE NoError

\* app.put('/api/products/:id', authenticate, validateProductUpdate, handler)
UpdateResponse(apiKey, id, body) ==
    LET found == FindOne(store, id)
        doc == CHOOSE p \in found : TRUE
        updatedProduct == ApplyUpdate(doc, UpdateDoc(body))
    IN  IF authenticate(apiKey) # next THEN authenticate(apiKey)
        ELSE IF validateProductUpdate(body) # next THEN validateProductUpdate(body)
        ELSE IF UpdateThrows(id, body) # NoError THEN ErrorHandler(UpdateThrows(id, body))
        ELSE Json(200, [status |-> "success",
                        message |-> "Product updated successfully",
                        data |-> updatedProduct])

Update(apiKey, id, body) ==
    LET r == UpdateResponse(apiKey, id, body)
        handled == authenticate(apiKey) = next /\ validateProductUpdate(body) = next
    IN  /\ ops' = ops + 1
        /\ req' = [route |-> PutRoute, apiKey |-> apiKey,
                   id |-> id, body |-> body]
        /\ res' = r
        /\ before' = store
        /\ storeCalls' = IF handled /\ RequiredFailures(UpdateDoc(body)) = <<>> THEN 1 ELSE 0
        /\ store' = IF r.code = 200
                    THEN (store \ FindOne(store, id)) \cup {r.body.data}
                    ELSE store
        /\ after' = store'
        /\ thrown' = IF handled THEN UpdateThrows(id, body) ELSE NoError
        /\ sentBy' = IF authenticate(apiKey) # next THEN "authenticate"
                      ELSE IF validateProductUpdate(body) # next THEN "validateProductUpdate"
                      ELSE Responder(r, thrown')
        /\ UNCHANGED <<env, seedPc, uuidNext, statsReq, listReq>>

\* the delete handler without its check of the store's result
DeleteResponse_NoNullCheck(apiKey, id) ==
    LET found == FindOne(store, id)
    IN  IF authenticate(apiKey) # next THEN authenticate(apiKey)
        ELSE Json(200, [status |-> "success",
                        message |-> "Product deleted successfully",
                        data |-> IF found = {} THEN Null ELSE CHOOSE p \in found : TRUE])

\* the error the delete handler rejects with: the null result of findOneAndDelete
DeleteThrows(id) ==
    IF FindOne(store, id) = {}
    THEN NotFoundError("Product with id " \o id \o " not found")
    ELSE NoError

\* app.delete('/api/products/:id', authenticate, handler)
DeleteResponse(apiKey, id) ==
    LET found == FindOne(store, id)
        deletedProduct == CHOOSE p \in found : TRUE
    IN  IF authenticate(apiKey) # next THEN authenticate(apiKey)
        ELSE IF DeleteThrows(id) # NoError THEN ErrorHandler(DeleteThrows(id))
        ELSE Json(200, [status |-> "success",
                        message |-> "Product deleted successfully",
                        data |-> deletedProduct])

Delete(apiKey, id) ==
    LET r == DeleteResponse(apiKey, id)
    IN  /\ ops' = ops + 1
        /\ req' = [route |-> DeleteRoute, apiKey |-> apiKey, id |-> id]
        /\ res' = r
        /\ before' = store
        /\ storeCalls' = IF authenticate(apiKey) = next THEN 1 ELSE 0
        /\ store' = IF r.code = 200 THEN store \ {r.body.data} ELSE store
        /\ after' = store'
        /\ thrown' = IF authenticate(apiKey) = next THEN DeleteThrows(id) ELSE NoError
        /\ sentBy' = IF authenticate(apiKey) # next THEN "authenticate"
                      ELSE Responder(r, thrown')
        /\ UNCHANGED <<env, seedPc, uuidNext, statsReq, listReq>>

-----------------------------------------------------------------------------
(* Read routes *)

\* app.get('/api/products/:id', handler)
GetOne(id) ==
    LET found == FindOne(store, id)
    IN  /\ ops' = ops + 1
        /\ req' = [route |-> GetOneRoute, id |-> id]
        /\ res' = IF found = {}
                  THEN ErrorHandler(NotFoundError("Product with id " \o id \o " not found"))
                  ELSE Json(200, [status |-> "success",
                                  data |-> CHOOSE p \in found : TRUE])
        /\ before' = store
        /\ after' = store
        /\ storeCalls' = 1
        /\ thrown' = IF found = {}
                      THEN NotFoundError("Product with id " \o id \o " not found")
                      ELSE NoError
        /\ sentBy' = Responder(res', thrown')
        /\ UNCHANGED <<env, store, seedPc, uuidNext, statsReq, listReq>>

\* app.get('/api/products/search', handler)
Search(q) ==
    /\ ops' = ops + 1
    /\ req' = [route |-> SearchRoute, query |-> [q |-> q]]
    /\ before' = store
    /\ after' = store
    /\ IF ~Truthy(q)
       THEN /\ res' = ErrorHandler(
                          ValidationError("Search query parameter q is required"))
            /\ thrown' = ValidationError("Search query parameter q is required")
            /\ storeCalls' = 0
       ELSE /\ \E products \in Orderings({p \in store : NameMatches(p, q.s)}) :
                  res' = Json(200, [status |-> "success",
                                    results |-> Len(products),
                                    searchQuery |-> q.s,
                                    data |-> products])
            /\ thrown' = NoError
            /\ storeCalls' = 1
    /\ sentBy' = Responder(res', thrown')
    /\ UNCHANGED <<env, store, seedPc, uuidNext, statsReq, listReq>>

\* app.get('/api/products', handler), up to its first await:
\* const totalProducts = await Product.countDocuments(filter)
ListCount(query) ==
    /\ listReq = Idle
    /\ ops' = ops + 1
    /\ listReq' = [pc |-> "find", query |-> query, arrived |-> store,
                   totalProducts |-> Cardinality(Matching(store, ListFilter(query)))]
    /\ UNCHANGED <<env, store, seedPc, uuidNext, req, res, before, after, storeCalls,
                   sentBy, thrown, statsReq>>

\* the response of the list handler for the documents find() returned
ListResponse(query, totalProducts, products) ==
    Json(200, [status |-> "success",
               results |-> Len(products),
               pagination |-> [currentPage |-> parseInt(PageOf(query)),
                               totalPages |-> CeilDiv(totalProducts, parseInt(LimitOf(query))),
                               totalProducts |-> totalProducts,
                               limit |-> parseInt(LimitOf(query))],
               data |-> products])

\* the rest of the list handler:
\* const products = await Product.find(filter).limit(..).skip(skip).sort({ name: 1 })
ListFind ==
    LET query == listReq.query
        skip == (parseInt(PageOf(query)) - 1) * parseInt(LimitOf(query))
    IN  /\ listReq # Idle
        /\ listReq' = Idle
        /\ req' = [route |-> ListRoute, query |-> query]
        /\ before' = listReq.arrived
        /\ after' = store
        /\ storeCalls' = 2
        /\ IF skip < 0
           THEN res' = ErrorHandler(SkipError)
           ELSE \E sorted \in SortedByName(Matching(store, ListFilter(query))) :
                   res' = ListResponse(query, listReq.totalProducts,
                                       Limit(Skip(sorted, skip), parseInt(LimitOf(query))))
        /\ thrown' = IF skip < 0 THEN SkipError ELSE NoError
        /\ sentBy' = Responder(res', thrown')
        /\ UNCHANGED <<env, store, seedPc, uuidNext, ops, statsReq>>

\* app.get('/api/products/statistics', handler), up to its first await:
\* const categoryStats = await Product.aggregate([...])
StatsCategory ==
    /\ statsReq = Idle
    /\ ops' = ops + 1
    /\ \E categoryStats \in SortedByCountDesc(CategoryGroups(store)) :
          statsReq' = [pc |-> "total", arrived |-> store,
                       categoryStats |-> categoryStats]
    /\ UNCHANGED <<env, store, seedPc, uuidNext, req, res, before, after, storeCalls,
                   sentBy, thrown, listReq>>

\* const totalProducts = await Product.countDocuments()
StatsTotal ==
    /\ statsReq.pc = "total"
    /\ statsReq' = [pc |-> "inStock", arrived |-> statsReq.arrived,
                    categoryStats |-> statsReq.categoryStats,
                    totalProducts |-> Cardinality(store)]
    /\ UNCHANGED <<env, store, seedPc, uuidNext, ops, req, res, before, after, storeCalls,
                   sentBy, thrown, listReq>>

\* const inStockCount = await Product.countDocuments({ inStock: true })
StatsInStock ==
    /\ statsReq.pc = "inStock"
    /\ statsReq' = [pc |-> "outOfStock", arrived |-> statsReq.arrived,
                    categoryStats |-> statsReq.categoryStats,
                    totalProducts |-> statsReq.totalProducts,
                    inStockCount |-> Cardinality({p \in store : p.inStock = TRUE})]
    /\ UNCHANGED <<env, store, seedPc, uuidNext, ops, req, res, before, after, storeCalls,
                   sentBy, thrown, listReq>>

\* const outOfStockCount = await Product.countDocuments({ inStock: false })
StatsOutOfStock ==
    /\ statsReq.pc = "outOfStock"
    /\ statsReq' = [pc |-> "price", arrived |-> statsReq.arrived,
                    categoryStats |-> statsReq.categoryStats,
                    totalProducts |-> statsReq.totalProducts,
                    inStockCount |-> statsReq.inStockCount,
                    outOfStockCount |-> Cardinality({p \in store : p.inStock = FALSE})]
    /\ UNCHANGED <<env, store, seedPc, uuidNext, ops, req, res, before, after, storeCalls,
                   sentBy, thrown, listReq>>

\* const priceStats = await Product.aggregate([...]); res.status(200).json(...)
StatsPrice ==
    /\ statsReq.pc = "price"
    /\ statsReq' = Idle
    /\ req' = [route |-> StatsRoute]
    /\ res' = Json(200, [status |-> "success",
                         data |-> [totalProducts |-> statsReq.totalProducts,
                                   inStock |-> statsReq.inStockCount,
                                   outOfStock |-> statsReq.outOfStockCount,
                                   priceStatistics |-> PriceStats(store),
                                   categoryBreakdown |-> statsReq.categoryStats]])
    /\ before' = statsReq.arrived
    /\ after' = store
    /\ storeCalls' = 5
    /\ thrown' = NoError
    /\ sentBy' = "handler"
    /\ UNCHANGED <<env, store, seedPc, uuidNext, ops, listReq>>

-----------------------------------------------------------------------------
(* The root route and the requests no route matches *)

\* app.get('/', (req, res) => res.json({ message, endpoints }))
Root ==
    /\ ops' = ops + 1
    /\ req' = [route |-> RootRoute]
    /\ res' = Json(200, [message |-> "Welcome to the Product API!",
                         endpoints |-> [products |-> "/api/products",
                                        search |-> "/api/products/search",
                                        statistics |-> "/api/products/statistics"]])
    /\ before' = store
    /\ after' = store
    /\ storeCalls' = 0
    /\ thrown' = NoError
    /\ sentBy' = "handler"
    /\ UNCHANGED <<env, store, seedPc, uuidNext, statsReq, listReq>>

\* app.use((req, res, next) => next(new NotFoundError(...))): the 404 handler
\* that runs when no route has answered
Unmatched(originalUrl) ==
    /\ ops' = ops + 1
    /\ req' = [route |-> NoRoute, originalUrl |-> originalUrl]
    /\ thrown' = NotFoundError("Cannot find " \o originalUrl \o " on this server")
    /\ res' = ErrorHandler(thrown')
    /\ sentBy' = Responder(res', thrown')
    /\ before' = store
    /\ after' = store
    /\ storeCalls' = 0
    /\ UNCHANGED <<env, store, seedPc, uuidNext, statsReq, listReq>>

-----------------------------------------------------------------------------
(* Specifications *)

\* the server receives one more request
CanReceive == ops < MaxOps

\* seeding and any MaxOps requests, interleaved at the awaits of the handlers
Next ==
    \/ SeedCount
    \/ SeedInsert
    \/ CanReceive /\ \E r \in SeqCreates : Create(r[1], r[2])
    \/ CanReceive /\ \E r \in SeqUpdates, i \in SeqParamIds : Update(r[1], i, r[2])
    \/ CanReceive /\ \E k \in SeqKeys, i \in SeqParamIds : Delete(k, i)
    \/ CanReceive /\ \E i \in SeqParamIds : GetOne(i)
    \/ CanReceive /\ \E q \in SeqSearches : Search(q)
    \/ CanReceive /\ \E q \in SeqQueries : ListCount(q)
    \/ ListFind
    \/ CanReceive /\ StatsCategory
    \/ CanReceive /\ Root
    \/ CanReceive /\ \E u \in SeqUrls : Unmatched(u)
    \/ StatsTotal
    \/ StatsInStock
    \/ StatsOutOfStock
    \/ StatsPrice

Spec == Init /\ [][Next]_vars

\* one request of any shape to the seeded server
NextOne ==
    \/ CanReceive /\ \E k \in OneKeys, b \in OneBodies : Create(k, b)
    \/ CanReceive /\ \E k \in OneKeys, i \in OneParamIds, b \in OneBodies : Update(k, i, b)
    \/ CanReceive /\ \E k \in OneKeys, i \in OneParamIds : Delete(k, i)
    \/ CanReceive /\ \E i \in OneParamIds : GetOne(i)
    \/ CanReceive /\ \E q \in OneSearches : Search(q)
    \/ CanReceive /\ \E q \in OneQueries : ListCount(q)
    \/ ListFind
    \/ CanReceive /\ Root
    \/ CanReceive /\ \E u \in OneUrls : Unmatched(u)

SpecOne == InitOne /\ [][NextOne]_vars

-----------------------------------------------------------------------------
(* Properties *)

ProtectedRoutes == {PostRoute, PutRoute, DeleteRoute}

\* some document of the collection has this id
Holds(coll, id) == \E p \in coll : p.id = id
Fields == {"id", "name", "price", "category", "inStock"}

\* the last answered request carried a key that authentication lets through
Authenticated == req.route \in ProtectedRoutes /\ authenticate(req.apiKey) = next

\* the response is a 401 sent as JSON with the given text in its message
Is401(text) ==
    /\ res.code = 401
    /\ res.type = "json"
    /\ res.body.status = "error"
    /\ Contains(res.body.message, text)

\* C1: a create, update or delete request passes authentication if and only
\* if its api-key header equals the configured secret: without the header it
\* is answered 401 "API key is required", with a different key it is answered
\* 401 "Invalid API key", and only a request carrying the configured secret
\* gets past authentication.
C1_OnlyConfiguredKeyPasses ==
    req.route \in ProtectedRoutes =>
        /\ req.apiKey = Undef => Is401("key is required")
        /\ (Truthy(req.apiKey) /\ req.apiKey # JStr(env.API_KEY)) => Is401("Invalid API key")
        /\ res.code # 401 => req.apiKey = JStr(env.API_KEY)

\* C2: for every list request with limit L and page P the returned data holds
\* at most L products, and pagination.totalPages is ceil(totalMatching / L),
\* totalMatching being the number of stored products that match the filter.
C2_PageWithinLimit ==
    (req.route = ListRoute /\ res.code = 200) =>
        LET L == IF req.query.limit = Undef THEN 10 ELSE parseInt(req.query.limit)
            totalMatching == Cardinality(Matching(before, ListFilter(req.query)))
        IN  /\ Len(res.body.data) <= L
            /\ L > 0 => res.body.pagination.totalPages = JNum((totalMatching + L - 1) \div L)

\* C3: in every statistics response inStock + outOfStock equals totalProducts,
\* also when other requests are processed between the store reads of the
\* statistics request.
C3_StockCountsAddUp ==
    (req.route = StatsRoute /\ res.code = 200) =>
        res.body.data.inStock + res.body.data.outOfStock = res.body.data.totalProducts

\* C4: after a successful update, every field of the product that is absent
\* from the payload has the value it had before, and no other stored product
\* has changed.
C4_AbsentFieldsUnchanged ==
    (req.route = PutRoute /\ res.code = 200) =>
        LET old == CHOOSE p \in before : p.id = req.id
            new == res.body.data
        IN  /\ \E p \in before : p.id = req.id
            /\ \A f \in Fields : req.body[f] = Undef => new[f] = old[f]
            /\ after = (before \ {old}) \cup {new}

C6_UpdateKeepsId ==
    (req.route = PutRoute /\ Authenticated) =>
        \A p \in before : \E q \in after : q.id = p.id

\* C7: an authenticated create or update whose payload has a numeric price
\* below 0 is answered 400 with an errors list that has a message containing
\* "non-negative", and leaves the store unchanged.
C7_NegativePriceRejected ==
    (req.route \in {PostRoute, PutRoute} /\ Authenticated
        /\ req.body.price.t = "number" /\ req.body.price.n < 0) =>
        /\ res.code = 400
        /\ res.body.status = "error"
        /\ \E i \in DOMAIN res.body.errors : Contains(res.body.errors[i], "non-negative")
        /\ after = before

\* an authenticated update with price -50 was refused
C7_Witness ==
    /\ req.route = PutRoute
    /\ Authenticated
    /\ req.body.price = JNum(-50)
    /\ res.code = 400

\* the field rules of creation, as the data model states them
NameViolated(body) == ~(body.name.t = "string" /\ Trim(body.name.s) # "")
PriceViolated(body) == ~(body.price.t = "number" /\ body.price.n >= 0)
CategoryViolated(body) == ~(body.category.t = "string" /\ Trim(body.category.s) # "")
InStockViolated(body) == ~(body.inStock.t \in {"undefined", "boolean"})

\* the fields whose rule a payload violates, in the order of the checks
ViolatedFields(body) ==
    SelectSeq(<<"name", "price", "category", "inStock">>,
              LAMBDA f : CASE f = "name" -> NameViolated(body)
                           [] f = "price" -> PriceViolated(body)
                           [] f = "category" -> CategoryViolated(body)
                           [] f = "inStock" -> InStockViolated(body))

\* the field a validation message is about
FieldOf(message) ==
    CASE Contains(message, "Name") -> "name"
      [] Contains(message, "Price") -> "price"
      [] Contains(message, "Category") -> "category"
      [] Contains(message, "inStock") -> "inStock"
      [] OTHER -> "none"

\* C8: creation validation reports every violation: the errors list of the
\* 400 response has exactly one message per violated field rule, in the order
\* name, price, category, inStock; the request is rejected exactly when some
\* rule is violated; {name: "", price: -50} without category yields 400 with
\* exactly three messages.
C8_AllViolationsReported ==
    (req.route = PostRoute /\ Authenticated) =>
        LET violated == ViolatedFields(req.body)
        IN  /\ res.code = 400 <=> violated # <<>>
            /\ res.code = 400 =>
                /\ res.body.status = "error"
                /\ Len(res.body.errors) = Len(violated)
                /\ \A i \in DOMAIN violated : FieldOf(res.body.errors[i]) = violated[i]
                /\ after = before
            /\ (req.body.name = JStr("") /\ req.body.price = JNum(-50)
                    /\ req.body.category = Undef /\ req.body.inStock = Undef) =>
                /\ res.code = 400
                /\ Len(res.body.errors) = 3

\* the payload {name: "", price: -50} was answered 400 with three messages
C8_Witness ==
    /\ req.route = PostRoute
    /\ Authenticated
    /\ req.body.name = JStr("")
    /\ req.body.price = JNum(-50)
    /\ req.body.category = Undef
    /\ res.code = 400
    /\ Len(res.body.errors) = 3

\* C9: an authenticated delete of an id no stored product has is answered 404
\* with an error body whose message contains the id and leaves the store
\* unchanged; an authenticated delete of an existing id removes exactly that
\* product and is answered 200.
C9_DeleteNotFound ==
    (req.route = DeleteRoute /\ Authenticated) =>
        IF Holds(before, req.id)
        THEN /\ res.code = 200
             /\ res.body.status = "success"
             /\ after = {p \in before : p.id # req.id}
             /\ Cardinality(after) = Cardinality(before) - 1
        ELSE /\ res.code = 404
             /\ res.type = "json"
             /\ res.body.status = "error"
             /\ Contains(res.body.message, req.id)
             /\ after = before

\* an authenticated delete of id 9, which the seeded store does not hold
C9_Witness ==
    /\ req.route = DeleteRoute
    /\ Authenticated
    /\ req.id = "9"
    /\ Cardinality(before) >= 5
    /\ res.code = 404

\* C10: a search request without q, or with an empty q, is answered 400 with
\* the error envelope {status: "error", message} and makes no store query.
C10_SearchWithoutQuery ==
    (req.route = SearchRoute /\ ~Truthy(req.query.q)) =>
        /\ res.code = 400
        /\ res.type = "json"
        /\ res.body.status = "error"
        /\ "message" \in DOMAIN res.body
        /\ storeCalls = 0

\* C11: every response, on every route (GET / and unmatched paths included)
\* and for every outcome, is a JSON body with a status field that is
\* "success" or "error", and status is "success" exactly when the status
\* code is 200 or 201.
C11_UniformEnvelope ==
    res # NoResponse =>
        /\ res.type = "json"
        /\ "status" \in DOMAIN res.body
        /\ res.body.status \in {"success", "error"}
        /\ res.body.status = "success" <=> res.code \in {200, 201}

\* C12: in every reachable state of the store every stored product has a
\* price >= 0 and a name and a category that are non-empty after trimming
\* whitespace.
C12_StoredFieldsValid ==
    \A p \in store :
        /\ p.price >= 0
        /\ Trim(p.name) # ""
        /\ Trim(p.category) # ""

\* the request's key is one that authentication refuses
KeyRefused ==
    \/ req.apiKey \in {Undef, Null, JStr("")}
    \/ req.apiKey \notin {JStr(env.API_KEY), JStr(FallbackKey)}

\* the fields of a payload that are present and violate their rule
PresentViolated(body) ==
    SelectSeq(ViolatedFields(body), LAMBDA f : body[f] # Undef)

\* the request's payload is one that the validation of its route refuses
PayloadRefused ==
    \/ req.route = PostRoute /\ ViolatedFields(req.body) # <<>>
    \/ req.route = PutRoute /\ PresentViolated(req.body) # <<>>

\* the stages that run after the middleware of a route
HandlerStages == {"handler", "errorHandler", "finalhandler"}

\* C13: on the create, update and delete routes authentication runs first,
\* then validation (create and update), then the handler: a request that
\* fails authentication or validation is answered by that stage, never
\* reaches the handler, makes no store operation and leaves the store
\* unchanged; a request that fails both is answered 401, not 400.
C13_StagesInOrder ==
    req.route \in ProtectedRoutes =>
        /\ KeyRefused =>
            /\ res.code = 401
            /\ sentBy = "authenticate"
            /\ thrown = NoError
            /\ storeCalls = 0
            /\ after = before
        /\ (~KeyRefused /\ PayloadRefused) =>
            /\ res.code = 400
            /\ sentBy \in {"validateProduct", "validateProductUpdate"}
            /\ thrown = NoError
            /\ storeCalls = 0
            /\ after = before
        /\ (~KeyRefused /\ ~PayloadRefused) => sentBy \in HandlerStages

\* a create without a key and with an invalid payload was answered 401
C13_Witness ==
    /\ req.route = PostRoute
    /\ req.apiKey = Undef
    /\ ViolatedFields(req.body) # <<>>
    /\ res.code = 401
    /\ after = before

\* C14: every failure response, whichever stage failed (authentication,
\* validation, handler or route matching), is produced by the one
\* error-handling middleware: no other stage sets an error status code or
\* writes an error body.
C14_OneFormatter ==
    (res # NoResponse /\ res.code >= 400) => sentBy = "errorHandler"

\* an error that is none of the operational kinds and is not one the error
\* handler remaps to 400
Unexpected(err) ==
    /\ err # NoError
    /\ "isOperational" \notin DOMAIN err
    /\ err.name \notin {"ValidationError", "CastError"}

\* unexpected errors the store calls of the handlers fail with
UnexpectedErrors == {DuplicateKeyError("1"), DuplicateKeyError("7"), SkipError}

\* C15: a request whose handler fails with an unexpected error is answered
\* 500; in production mode the response carries neither the error's raw
\* message nor its stack, so it is the response any other unexpected error
\* would have been answered with.
C15_NoInternalDetailInProduction ==
    Unexpected(thrown) =>
        /\ res.code = 500
        /\ env.NODE_ENV = "production" =>
            /\ res.type = "json"
            /\ "stack" \notin DOMAIN res.body
            /\ res.body.message # thrown.message
            /\ \A e \in UnexpectedErrors : ErrorHandler(e) = res

\* C16: seeding inserts the fixture records only into an empty collection:
\* whenever its insert step runs on a collection that holds a product, the
\* collection is left as it is, and whenever the step changes the collection
\* all 5 fixture records are stored afterwards.
C16_SeedOnlyIntoEmpty ==
    [][(seedPc = "insert" /\ seedPc' = "done") =>
            /\ store # {} => store' = store
            /\ store' # store =>
                \A i \in DOMAIN initialProducts : initialProducts[i] \in store']_vars

\* the four validated fields of a payload
ValidatedFields == {"name", "price", "category", "inStock"}

\* C17: update validation never reports an error for a field absent from the
\* payload, so a payload without the four fields passes and reaches the
\* handler; and a payload in which name, price, category and inStock are all
\* present is accepted by update validation exactly when creation validation
\* accepts it.
C17_PartialMatchesStrict ==
    (req.route = PutRoute /\ ~KeyRefused) =>
        LET errors == IF sentBy = "validateProductUpdate" THEN res.body.errors ELSE <<>>
            accepted == sentBy \in HandlerStages
        IN  /\ accepted <=> errors = <<>>
            /\ \A i \in DOMAIN errors :
                  /\ FieldOf(errors[i]) \in ValidatedFields
                  /\ req.body[FieldOf(errors[i])] # Undef
            /\ (\A f \in ValidatedFields : req.body[f] = Undef) => accepted
            /\ (\A f \in ValidatedFields : req.body[f] # Undef) =>
                  (accepted <=> validateProductErrors(req.body) = <<>>)

\* an authenticated update with all four fields present and valid was
\* accepted and answered 200
C17_Witness ==
    /\ req.route = PutRoute
    /\ ~KeyRefused
    /\ \A f \in ValidatedFields : req.body[f] # Undef
    /\ validateProductErrors(req.body) = <<>>
    /\ sentBy = "handler"
    /\ res.code = 200

====
